---- MODULE Spec2Model ----
(***************************************************************************)
(* Verification model of drawio-export: the .drawio codec (drawioEncoder), *)
(* the parsers (drawioParsers), the transformers (drawioTransformers) and  *)
(* the CSV formatter (drawioExporters).                                    *)
(*                                                                         *)
(* Texts are sequences of character codes.  A "throw" that the source      *)
(* catches and turns into `return null` is the record Null; a successful   *)
(* result r is Ok(r).                                                      *)
(***************************************************************************)
EXTENDS Integers, Sequences, FiniteSets, TLC

VARIABLES
    env,        \* codec: which branch of parseXml the host takes
    wrapped,    \* codec: payload handed to decodeDrawio inside <mxfile><diagram>?
    text,       \* codec: the markup text m
    payload,    \* codec: result of encodeDrawio(m)
    decoded,    \* codec: result of decodeDrawio(payload)
    cpc,        \* codec: position ("start", "encoded", "decoded")
    rawValue,   \* prefix extractor: the "value" attribute of one node
    extracted,  \* prefix extractor: result of extractPrefixFromNode
    recleaned,  \* prefix extractor: the cleanup applied to extracted.value
    xpc,        \* prefix extractor: position ("start", "extracted", "recleaned")
    passNodes,  \* extraction pass: the document's mxCell[value] nodes, in order
    passResult, \* extraction pass: what findPrefixedNodes returned or threw
    ppc,        \* extraction pass: position ("start", "done")
    doc,        \* pipeline: the document: containers, value nodes, edges
    containers, \* pipeline: result of parseContainers (the tree nodes)
    assumptions, \* pipeline: result of parseAssumptions, as linked later
    questions,  \* pipeline: result of parseQuestions, as linked later
    csv,        \* pipeline: what doFormatCsv returned or how it failed
    qpc         \* pipeline: the next step of parseCommand

codecVars == <<env, wrapped, text, payload, decoded, cpc>>
cleanVars == <<rawValue, extracted, recleaned, xpc>>
passVars == <<passNodes, passResult, ppc>>
pipeVars == <<doc, containers, assumptions, questions, csv, qpc>>

vars == <<codecVars, cleanVars, passVars, pipeVars>>

-----------------------------------------------------------------------------
(* Bounds *)

\* longest markup text handed to encodeDrawio
MaxTextLen == 3

\* longest "value" attribute, in tokens, handed to extractPrefixFromNode
MaxValueLen == 4

\* most mxCell[value] nodes in the document of one extraction pass
MaxPassNodes == 3

\* most container elements in a pipeline document
MaxContainers == 2

\* most assumption nodes in a pipeline document that varies its containers
MaxAssumptions == 2

\* most edge elements in a pipeline document that varies its edges
MaxEdges == 2

-----------------------------------------------------------------------------
(* Results *)

Null == [ok |-> FALSE, v |-> <<>>]
Ok(x) == [ok |-> TRUE, v |-> x]

\* the characters markup texts are drawn from: a (unreserved), < and %
\* (reserved ASCII), e-acute (two UTF-8 bytes), euro sign (three UTF-8 bytes)
TextChars == {97, 60, 37, 233, 8364}

RECURSIVE SeqsUpTo(_, _)
SeqsUpTo(S, n) ==
    IF n = 0 THEN {<<>>}
    ELSE LET shorter == SeqsUpTo(S, n - 1)
         IN  shorter \cup {Append(s, c) : s \in {t \in shorter : Len(t) = n - 1}, c \in S}

Tail2(s, k) == SubSeq(s, k + 1, Len(s))

-----------------------------------------------------------------------------
(* Percent-encoding: encodeURIComponent / decodeURIComponent               *)

Utf8(cp) ==
    IF cp < 128 THEN <<cp>>
    ELSE IF cp < 2048 THEN <<192 + (cp \div 64), 128 + (cp % 64)>>
    ELSE <<224 + (cp \div 4096), 128 + ((cp \div 64) % 64), 128 + (cp % 64)>>

HexDigit(d) == IF d < 10 THEN 48 + d ELSE 55 + d

HexValue(c) ==
    IF c >= 48 /\ c <= 57 THEN c - 48
    ELSE IF c >= 65 /\ c <= 70 THEN c - 55
    ELSE IF c >= 97 /\ c <= 102 THEN c - 87
    ELSE -1

\* A-Z a-z 0-9 - _ . ! ~ * ' ( )
IsUnreserved(c) ==
    \/ c >= 65 /\ c <= 90
    \/ c >= 97 /\ c <= 122
    \/ c >= 48 /\ c <= 57
    \/ c \in {45, 95, 46, 33, 126, 42, 39, 40, 41}

RECURSIVE PercentBytes(_)
PercentBytes(bs) ==
    IF bs = <<>> THEN <<>>
    ELSE <<37, HexDigit(Head(bs) \div 16), HexDigit(Head(bs) % 16)>> \o PercentBytes(Tail(bs))

RECURSIVE encodeURIComponent(_)
encodeURIComponent(s) ==
    IF s = <<>> THEN <<>>
    ELSE (IF IsUnreserved(Head(s)) THEN <<Head(s)>> ELSE PercentBytes(Utf8(Head(s))))
         \o encodeURIComponent(Tail(s))

\* the byte written as %HH at the head of s, or -1
EscapedByte(s) ==
    IF Len(s) >= 3 /\ s[1] = 37 /\ HexValue(s[2]) >= 0 /\ HexValue(s[3]) >= 0
    THEN 16 * HexValue(s[2]) + HexValue(s[3])
    ELSE -1

IsCont(b) == b >= 128 /\ b < 192

RECURSIVE decodeURIComponent(_)
decodeURIComponent(s) ==
    IF s = <<>> THEN Ok(<<>>)
    ELSE IF Head(s) # 37 THEN
        LET rest == decodeURIComponent(Tail(s))
        IN  IF rest.ok THEN Ok(<<Head(s)>> \o rest.v) ELSE Null
    ELSE
        LET b1 == EscapedByte(s)
            b2 == EscapedByte(Tail2(s, 3))
            b3 == EscapedByte(Tail2(s, 6))
            n  == IF b1 < 0 THEN 0
                  ELSE IF b1 < 128 THEN 1
                  ELSE IF b1 >= 194 /\ b1 < 224 /\ IsCont(b2) THEN 2
                  ELSE IF b1 >= 224 /\ b1 < 240 /\ IsCont(b2) /\ IsCont(b3) THEN 3
                  ELSE 0
            cp == IF n = 1 THEN b1
                  ELSE IF n = 2 THEN (b1 - 192) * 64 + (b2 - 128)
                  ELSE (b1 - 224) * 4096 + (b2 - 128) * 64 + (b3 - 128)
            rest == decodeURIComponent(Tail2(s, 3 * n))
        IN  IF n = 0 THEN Null                       \* URIError
            ELSE IF rest.ok THEN Ok(<<cp>> \o rest.v) ELSE Null

-----------------------------------------------------------------------------
(* Raw DEFLATE (pako.deflateRaw / pako.inflateRaw), in the stored-block    *)
(* form of RFC 1951: BFINAL=1 BTYPE=00, LEN, NLEN, then the bytes.  The    *)
(* input of deflateRaw is percent-encoded, hence ASCII, so its UTF-8       *)
(* bytes are its character codes; inflateRaw's {to: 'string'} reads them   *)
(* back the same way.                                                      *)

deflateRaw(s) ==
    <<1, Len(s) % 256, Len(s) \div 256, 255 - (Len(s) % 256), 255 - (Len(s) \div 256)>> \o s

inflateRaw(bs) ==
    IF /\ Len(bs) >= 5
       /\ bs[1] = 1
       /\ bs[2] + bs[4] = 255
       /\ bs[3] + bs[5] = 255
       /\ Len(bs) = 5 + bs[2] + 256 * bs[3]
    THEN Ok(Tail2(bs, 5))
    ELSE Null

-----------------------------------------------------------------------------
(* Base64 (btoa / atob).  A base64 text is a sequence of alphabet indices  *)
(* 0..63 (A-Z a-z 0-9 + /); Pad stands for '='.                            *)

Pad == 64

RECURSIVE btoa(_)
btoa(bs) ==
    IF bs = <<>> THEN <<>>
    ELSE IF Len(bs) = 1 THEN
        <<bs[1] \div 4, (bs[1] % 4) * 16, Pad, Pad>>
    ELSE IF Len(bs) = 2 THEN
        <<bs[1] \div 4, (bs[1] % 4) * 16 + (bs[2] \div 16), (bs[2] % 16) * 4, Pad>>
    ELSE
        <<bs[1] \div 4, (bs[1] % 4) * 16 + (bs[2] \div 16),
          (bs[2] % 16) * 4 + (bs[3] \div 64), bs[3] % 64>> \o btoa(Tail2(bs, 3))

StripPadding(s) ==
    IF Len(s) % 4 = 0 /\ Len(s) > 0 /\ s[Len(s)] = Pad
    THEN IF s[Len(s) - 1] = Pad THEN SubSeq(s, 1, Len(s) - 2) ELSE SubSeq(s, 1, Len(s) - 1)
    ELSE s

RECURSIVE AtobGroups(_)
AtobGroups(s) ==
    IF Len(s) < 2 THEN <<>>
    ELSE IF Len(s) = 2 THEN <<s[1] * 4 + (s[2] \div 16)>>
    ELSE IF Len(s) = 3 THEN <<s[1] * 4 + (s[2] \div 16), (s[2] % 16) * 16 + (s[3] \div 4)>>
    ELSE <<s[1] * 4 + (s[2] \div 16), (s[2] % 16) * 16 + (s[3] \div 4), (s[3] % 4) * 64 + s[4]>>
         \o AtobGroups(Tail2(s, 4))

atob(s) ==
    LET t == StripPadding(s)
    IN  IF Len(t) % 4 = 1 \/ (\E i \in 1..Len(t) : t[i] = Pad)
        THEN Null                                    \* InvalidCharacterError
        ELSE Ok(AtobGroups(t))

-----------------------------------------------------------------------------
(* drawioEncoder: parseXml, decodeDrawio, encodeDrawio                     *)

\* codec options default to true
DefaultOptions == [base64 |-> TRUE, deflate |-> TRUE, urlEncode |-> TRUE]

\* The hosts parseXml distinguishes: a browser, where globalThis.DOMParser
\* exists, and Node, where it does not and jsdom is used.
Envs == {"DOMParser", "jsdom"}

\* What decodeDrawio is handed: a payload, bare or as the text of the first
\* <diagram> of an <mxfile> document.
Data(body, inMxfile) == [mxfile |-> inMxfile, body |-> body]

\* parseXml(xml).documentElement.  A bare payload is base64 text (or empty)
\* and so never a well-formed XML document: DOMParser.parseFromString then
\* returns a <parsererror> document, while `new JSDOM(xml, {contentType:
\* 'text/xml'})` throws the parser's error.
parseXml(data, e) ==
    IF data.mxfile THEN Ok([nodeName |-> "mxfile", diagrams |-> <<data.body>>])
    ELSE IF e = "DOMParser" THEN Ok([nodeName |-> "parsererror", diagrams |-> <<>>])
    ELSE Null

decodeDrawio(data, options, e) ==
    LET dom == parseXml(data, e)
        d0  == IF dom.ok /\ dom.v.nodeName = "mxfile" /\ Len(dom.v.diagrams) > 0
               THEN dom.v.diagrams[1]
               ELSE data.body
        r1  == IF options.base64 THEN atob(d0) ELSE Ok(d0)
        r2  == IF r1.ok /\ options.deflate /\ Len(r1.v) > 0 THEN inflateRaw(r1.v) ELSE r1
        r3  == IF r2.ok /\ options.urlEncode THEN decodeURIComponent(r2.v) ELSE r2
    IN  IF ~dom.ok THEN Null            \* catch (e) { logger.error(e); return null; }
        ELSE IF ~r1.ok THEN Null        \* atob failed
        ELSE IF ~r2.ok THEN Null        \* inflateRaw failed
        ELSE r3                         \* Null when decodeURIComponent failed

encodeDrawio(data, options) ==
    LET d1 == IF options.urlEncode THEN encodeURIComponent(data) ELSE data
        d2 == IF options.deflate /\ Len(d1) > 0 THEN deflateRaw(d1) ELSE d1
        d3 == IF options.base64 THEN btoa(d2) ELSE d2
    IN  Ok(d3)

-----------------------------------------------------------------------------
(* drawioParsers: the prefix extractor.                                    *)
(*                                                                         *)
(* A "value" is a sequence of tokens.  The tokens are the pieces the two   *)
(* regular expressions of extractPrefixFromNode tell apart:                *)
(*   "A", "Q"  the prefix text (either case, the pattern has flag i)       *)
(*   "(id)"    a parenthesised run of word characters, carrying the id     *)
(*   ":"  " "  ">"   a colon, a whitespace character, a greater-than sign  *)
(*   "<font"   the opening of a font or span tag: <font </font <span </span*)
(*   "<br>"    a line-break element (real markup in the attribute)         *)
(*   "-"  "x"  a hyphen, any other text                                    *)
(* In an attribute value "<font" and ">" stand for their escaped forms     *)
(* (&lt;font, &gt;), which htmlDecode turns into text.                     *)

\* identifiers: the string auto_<n>, or some other word (the k-th one)
Auto(n) == [auto |-> TRUE, n |-> n]
Named(k) == [auto |-> FALSE, n |-> k]
\* null or undefined
NoId == [auto |-> FALSE, n |-> 0]

Tok(t) == [t |-> t, id |-> NoId]
IdTok(i) == [t |-> "(id)", id |-> i]

\* htmlDecode: the text content of the value parsed as an HTML document.
\* Elements contribute no text; white space before the first content is
\* dropped by the HTML parser.
RECURSIVE DropElements(_)
DropElements(v) ==
    IF v = <<>> THEN <<>>
    ELSE IF Head(v).t = "<br>" THEN DropElements(Tail(v))
    ELSE <<Head(v)>> \o DropElements(Tail(v))

RECURSIVE DropLeadingSpace(_)
DropLeadingSpace(v) ==
    IF v # <<>> /\ Head(v).t = " " THEN DropLeadingSpace(Tail(v)) ELSE v

htmlDecode(input) == DropLeadingSpace(DropElements(input))

\* the index of the last of the white space tokens that start at i (i - 1 if none)
RECURSIVE SpaceEnd(_, _)
SpaceEnd(v, i) ==
    IF i <= Len(v) /\ v[i].t = " " THEN SpaceEnd(v, i + 1) ELSE i - 1

\* genPrefixRegexp(prefix) = /(?:^|>)prefix(?:\((?<id>\w+)\))?:\s*/i, tried at
\* index i of v: whether it matches there, where the match ends, and the id
MatchAt(v, i, prefix) ==
    LET p == IF i = 1 /\ v[1].t = prefix THEN 1
             ELSE IF v[i].t = ">" THEN i + 1
             ELSE 0
        hasId == p > 0 /\ p + 1 <= Len(v) /\ v[p + 1].t = "(id)"
        c == IF hasId THEN p + 2 ELSE p + 1
        ok == /\ p > 0
              /\ p <= Len(v)
              /\ v[p].t = prefix
              /\ c <= Len(v)
              /\ v[c].t = ":"
    IN  [ok |-> ok,
         from |-> i,
         to |-> IF ok THEN SpaceEnd(v, c + 1) ELSE 0,
         id |-> IF ok /\ hasId THEN v[p + 1].id ELSE NoId]

NoMatch == [ok |-> FALSE, from |-> 0, to |-> 0, id |-> NoId]

\* the indices at which the pattern matches
MatchStarts(v, prefix) == {i \in 1..Len(v) : MatchAt(v, i, prefix).ok}

Least(S) == CHOOSE i \in S : \A j \in S : i <= j

LeftmostOf(v, starts, prefix) ==
    IF starts = {} THEN NoMatch ELSE MatchAt(v, Least(starts), prefix)

\* String.prototype.match / the match replace() acts on: the leftmost one
FirstMatch(v, prefix) == LeftmostOf(v, MatchStarts(v, prefix), prefix)

\* v without the stretch match m covers
CutMatch(v, m) ==
    IF ~m.ok THEN v ELSE SubSeq(v, 1, m.from - 1) \o Tail2(v, m.to)

\* .replace(idRegex, ''): the pattern has no flag g, so the first match only
RemoveFirstMatch(v, prefix) == CutMatch(v, FirstMatch(v, prefix))

\* .replace(/<\/?(?:font|span)\s*.*?>/g, ''): every stretch from a tag opening
\* to the nearest following ">", scanning left to right once
RECURSIVE StripTags(_)
StripTags(v) ==
    IF v = <<>> THEN <<>>
    ELSE IF Head(v).t = "<font" /\ (\E j \in 2..Len(v) : v[j].t = ">")
         THEN StripTags(Tail2(v, Least({j \in 2..Len(v) : v[j].t = ">"})))
         ELSE <<Head(v)>> \o StripTags(Tail(v))

\* a cleanup that forgets the font/span tags
CleanupKeepTags(value, prefix) == RemoveFirstMatch(value, prefix)

\* the cleanup of extractPrefixFromNode
Cleanup(value, prefix) == RemoveFirstMatch(StripTags(value), prefix)

\* the result of extractPrefixFromNode, given the match and the clean value
ExtractResult(node, m, cleanValue) ==
    IF ~m.ok
    THEN [match |-> FALSE, value |-> <<>>, rawValue |-> <<>>, prefixId |-> NoId]
    ELSE [match |-> TRUE, value |-> cleanValue, rawValue |-> node.value, prefixId |-> m.id]

extractPrefixFromNode(node, prefix) ==
    ExtractResult(node, FirstMatch(htmlDecode(node.value), prefix),
                  Cleanup(htmlDecode(node.value), prefix))

-----------------------------------------------------------------------------
(* drawioParsers: createIdGen, createParserForPrefixedNode,                *)
(* findPrefixedNodes.  A node is [id, value, parent]; id 0 is a missing or *)
(* empty id attribute.                                                     *)

\* an id generator that hands out the counter's token without consulting the cache
genNextIdNoSkip(idCache, autoIdCounter) ==
    [id |-> Auto(autoIdCounter),
     idCache |-> idCache \cup {Auto(autoIdCounter)},
     autoIdCounter |-> autoIdCounter + 1]

\* genNextId: do { idCandidate = idGenFn(autoIdCounter++) }
\* while (idCache.has(idCandidate)); idCache.add(idCandidate)
RECURSIVE genNextId(_, _)
genNextId(idCache, autoIdCounter) ==
    IF Auto(autoIdCounter) \in idCache
    THEN genNextId(idCache, autoIdCounter + 1)
    ELSE [id |-> Auto(autoIdCounter),
          idCache |-> idCache \cup {Auto(autoIdCounter)},
          autoIdCounter |-> autoIdCounter + 1]

\* the state createParserForPrefixedNode closes over
NewParser == [seenIds |-> {}, autoIdCounter |-> 1]

\* parseNode after its call of extractPrefixFromNode returned x; gen is what
\* genNextAutoId() would return
ParseExtracted(parser, x, gen) ==
    IF ~x.match THEN
        [threw |-> FALSE, match |-> FALSE, parser |-> parser,
         prefixId |-> NoId, value |-> <<>>, rawValue |-> <<>>]
    ELSE IF x.prefixId # NoId /\ x.prefixId \in parser.seenIds THEN
        [threw |-> TRUE, match |-> TRUE, parser |-> parser,
         prefixId |-> x.prefixId, value |-> <<>>, rawValue |-> <<>>]
    ELSE IF x.prefixId # NoId THEN
        [threw |-> FALSE, match |-> TRUE,
         parser |-> [parser EXCEPT !.seenIds = @ \cup {x.prefixId}],
         prefixId |-> x.prefixId, value |-> x.value, rawValue |-> x.rawValue]
    ELSE
        [threw |-> FALSE, match |-> TRUE,
         parser |-> [seenIds |-> gen.idCache, autoIdCounter |-> gen.autoIdCounter],
         prefixId |-> gen.id, value |-> x.value, rawValue |-> x.rawValue]

\* parseNode: the parser's next state and what it returns or throws
parseNode(parser, node, prefix) ==
    ParseExtracted(parser, extractPrefixFromNode(node, prefix),
                   genNextId(parser.seenIds, parser.autoIdCounter))

\* the reducer of findPrefixedNodes, given what parseNode(node) gives
ReduceParsed(node, parser, aggArr, prefix, r) ==
    IF node.id = 0 THEN [threw |-> FALSE, parser |-> parser, aggArr |-> aggArr]
    ELSE IF r.threw THEN [threw |-> TRUE, parser |-> parser, aggArr |-> <<>>]
    ELSE IF ~r.match THEN [threw |-> FALSE, parser |-> r.parser, aggArr |-> aggArr]
    ELSE [threw |-> FALSE, parser |-> r.parser,
          aggArr |-> Append(aggArr, [node |-> node, nodeId |-> node.id,
                                     prefix |-> prefix, prefixId |-> r.prefixId,
                                     value |-> r.value, rawValue |-> r.rawValue])]

\* the reducer of findPrefixedNodes: one node, the parser and the entities so far
ReduceStep(node, parser, aggArr, prefix) ==
    ReduceParsed(node, parser, aggArr, prefix, parseNode(parser, node, prefix))

\* the reduce of findPrefixedNodes over nodes[i..]; a throw ends it
RECURSIVE ReduceNodes(_, _, _, _, _)
ReduceNodes(nodes, i, parser, aggArr, prefix) ==
    LET step == ReduceStep(nodes[i], parser, aggArr, prefix)
    IN  IF i > Len(nodes) THEN [threw |-> FALSE, entities |-> aggArr]
        ELSE IF step.threw THEN [threw |-> TRUE, entities |-> <<>>]
        ELSE ReduceNodes(nodes, i + 1, step.parser, step.aggArr, prefix)

\* nodes: the elements document.querySelectorAll('mxCell[value]') yields
findPrefixedNodes(nodes, prefix) == ReduceNodes(nodes, 1, NewParser, <<>>, prefix)

-----------------------------------------------------------------------------
(* drawioParsers: parseContainers.                                         *)
(*                                                                         *)
(* The tree nodes live in a heap: a function from references to nodes.     *)
(* The reference of a node of containerCache is its key (an element id;    *)
(* the key "null" that a missing parent attribute gives is 0); the         *)
(* reference of containerRoot is RootRef.  A container element is          *)
(* [id, parent, value], parent 0 when the attribute is absent.             *)

\* containerRoot
RootRef == -1
\* parent: null / container: undefined
NullRef == -2

createNode ==
    [nodeId |-> 0, parent |-> NullRef, children |-> <<>>, value |-> <<>>,
     assumptions |-> <<>>]

\* connectNodes = (parent, child) => { parent.children.push(child); child.parent = parent }
connectNodes(heap, parent, child) ==
    [heap EXCEPT ![parent].children = Append(@, child), ![child].parent = parent]

\* if (!containerCache[key]) containerCache[key] = createNode()
EnsureNode(heap, key) ==
    IF key \in DOMAIN heap THEN heap ELSE heap @@ (key :> createNode)

\* currTreeNode.nodeId = node.id; currTreeNode.value = node.getAttribute('value') || ''
FillNode(heap, node) ==
    [heap EXCEPT ![node.id].nodeId = node.id, ![node.id].value = node.value]

\* if (!parentId || !containerNodeIds.has(parentId)) connectNodes(containerRoot, currTreeNode)
ConnectRoot(heap, node, containerNodeIds) ==
    IF node.parent = 0 \/ node.parent \notin containerNodeIds
    THEN connectNodes(heap, RootRef, node.id)
    ELSE heap

\* the two statements after it, which no else guards:
\* if (!containerCache[parentId]) containerCache[parentId] = createNode();
\* connectNodes(containerCache[parentId], currTreeNode)
ConnectParent(heap, node) ==
    connectNodes(EnsureNode(heap, node.parent), node.parent, node.id)

\* the body of containerNodes.forEach
ContainerStep(heap, node, containerNodeIds) ==
    ConnectParent(
        ConnectRoot(FillNode(EnsureNode(heap, node.id), node), node, containerNodeIds),
        node)

RECURSIVE ContainerLoop(_, _, _, _)
ContainerLoop(heap, nodes, i, containerNodeIds) ==
    IF i > Len(nodes) THEN heap
    ELSE ContainerLoop(ContainerStep(heap, nodes[i], containerNodeIds), nodes, i + 1,
                       containerNodeIds)

\* ascending sequence of a set of integers
RECURSIVE SortedSeq(_)
SortedSeq(S) ==
    IF S = {} THEN <<>> ELSE <<Least(S)>> \o SortedSeq(S \ {Least(S)})

\* Object.values(containerCache): the integer-like keys in ascending order,
\* then the key "null"
CacheValues(heap) ==
    SortedSeq(DOMAIN heap \ {RootRef, 0}) \o (IF 0 \in DOMAIN heap THEN <<0>> ELSE <<>>)

\* [...querySelectorAll('mxCell[style*="container=1"]')].filter((node) => node.id)
RECURSIVE WithId(_)
WithId(nodes) ==
    IF nodes = <<>> THEN <<>>
    ELSE (IF Head(nodes).id # 0 THEN <<Head(nodes)>> ELSE <<>>) \o WithId(Tail(nodes))

TreeResult(heap) == [heap |-> heap, root |-> RootRef, all |-> CacheValues(heap)]

IdsOf(nodes) == {nodes[i].id : i \in 1..Len(nodes)}

parseContainers(containerNodes) ==
    TreeResult(ContainerLoop(RootRef :> createNode, WithId(containerNodes), 1,
                             IdsOf(WithId(containerNodes))))

-----------------------------------------------------------------------------
(* drawioParsers: parseAssumptions, parseQuestions.  Entities refer to one *)
(* another by their index in the parser's result array.                    *)

Assumption(e) ==
    [node |-> e.node, nodeId |-> e.nodeId, prefix |-> e.prefix, prefixId |-> e.prefixId,
     value |-> e.value, rawValue |-> e.rawValue,
     parentId |-> e.node.parent, questions |-> <<>>, container |-> NullRef]

\* findPrefixedNodes(...).map(...); a parser that throws leaves result: null
\* in parseCommand's summary object
AssumptionsOf(found) ==
    IF found.threw THEN Null
    ELSE Ok([i \in 1..Len(found.entities) |-> Assumption(found.entities[i])])

parseAssumptions(nodes) == AssumptionsOf(findPrefixedNodes(nodes, "A"))

\* a token whose text ends with ">"
EndsTag(tok) == tok.t = "<br>" \/ tok.t = ">"

\* /<br.*?>-\s*/ tried at index i of v: from "<br" lazily to the nearest ">"
\* that a hyphen follows, then the white space after the hyphen
BulletEnds(v, i) == {j \in i..(Len(v) - 1) : EndsTag(v[j]) /\ v[j + 1].t = "-"}

BulletAt(v, i) ==
    IF v[i].t = "<br>" /\ BulletEnds(v, i) # {}
    THEN SpaceEnd(v, Least(BulletEnds(v, i)) + 2)
    ELSE 0

BulletStarts(v) == {i \in 1..Len(v) : BulletAt(v, i) > 0}

\* rawValue.split(/<br.*?>-\s*/)
RECURSIVE SplitBullets(_)
SplitBullets(v) ==
    IF BulletStarts(v) = {} THEN <<v>>
    ELSE <<SubSeq(v, 1, Least(BulletStarts(v)) - 1)>>
         \o SplitBullets(Tail2(v, BulletAt(v, Least(BulletStarts(v)))))

RECURSIVE DropTrailingSpace(_)
DropTrailingSpace(v) ==
    IF v # <<>> /\ v[Len(v)].t = " " THEN DropTrailingSpace(SubSeq(v, 1, Len(v) - 1)) ELSE v

trim(v) == DropTrailingSpace(DropLeadingSpace(v))

\* .map((q) => q.trim()).filter(Boolean)
RECURSIVE TrimNonEmpty(_)
TrimNonEmpty(parts) ==
    IF parts = <<>> THEN <<>>
    ELSE (IF trim(Head(parts)) = <<>> THEN <<>> ELSE <<trim(Head(parts))>>)
         \o TrimNonEmpty(Tail(parts))

\* rawValue.split(...).slice(1).map(...).filter(Boolean)
SubQuestions(raw) == TrimNonEmpty(Tail(SplitBullets(raw)))

Question(e) ==
    [node |-> e.node, nodeId |-> e.nodeId, prefix |-> e.prefix, prefixId |-> e.prefixId,
     value |-> e.value, rawValue |-> e.rawValue,
     questions |-> SubQuestions(e.rawValue), targetIds |-> <<>>, assumptions |-> <<>>]

\* findPrefixedNodes(...).map(...)
QuestionsOf(found) ==
    IF found.threw THEN Null
    ELSE Ok([i \in 1..Len(found.entities) |-> Question(found.entities[i])])

\* keyBy(list, (x) => x.nodeId)[id] and the reduce of assumptionCache: the
\* last entity with that node id; 0 when there is none
ByNodeId(list, id) ==
    IF \E i \in 1..Len(list) : list[i].nodeId = id
    THEN CHOOSE i \in 1..Len(list) :
            /\ list[i].nodeId = id
            /\ \A j \in 1..Len(list) : list[j].nodeId = id => j <= i
    ELSE 0

\* edgeData: the edge as {sourceId, targetId} seen from the question it is
\* credited to; sourceId 0 when neither endpoint is a question
EdgeData(qs, edge) ==
    IF ByNodeId(qs, edge.source) # 0 THEN [sourceId |-> edge.source, targetId |-> edge.target]
    ELSE IF ByNodeId(qs, edge.target) # 0 THEN [sourceId |-> edge.target, targetId |-> edge.source]
    ELSE [sourceId |-> 0, targetId |-> 0]

\* questionsByNodeId[edgeData.sourceId].targetIds.push(edgeData.targetId)
PushTarget(qs, edgeData) ==
    IF edgeData.sourceId = 0 THEN qs
    ELSE [qs EXCEPT ![ByNodeId(qs, edgeData.sourceId)].targetIds = Append(@, edgeData.targetId)]

RECURSIVE EdgeLoop(_, _, _)
EdgeLoop(qs, edges, i) ==
    IF i > Len(edges) THEN qs
    ELSE EdgeLoop(PushTarget(qs, EdgeData(qs, edges[i])), edges, i + 1)

WithEdges(found, edges) ==
    IF found.ok THEN Ok(EdgeLoop(found.v, edges, 1)) ELSE Null

parseQuestions(nodes, edges) ==
    WithEdges(QuestionsOf(findPrefixedNodes(nodes, "Q")), edges)

-----------------------------------------------------------------------------
(* drawioTransformers.  data is [as, qs, heap, all]: the assumptions, the  *)
(* questions, the tree nodes and Object.values(containerCache).            *)

\* the body of quest.targetIds.forEach, for question qi and its ti-th target
LinkTarget(data, qi, ai) ==
    IF ai = 0 THEN data
    ELSE [data EXCEPT !.as[ai].questions = Append(@, qi),
                      !.qs[qi].assumptions = Append(@, ai)]

RECURSIVE LinkLoop(_, _, _)
LinkLoop(data, qi, ti) ==
    IF qi > Len(data.qs) THEN data
    ELSE IF ti > Len(data.qs[qi].targetIds) THEN LinkLoop(data, qi + 1, 1)
    ELSE LinkLoop(LinkTarget(data, qi, ByNodeId(data.as, data.qs[qi].targetIds[ti])),
                  qi, ti + 1)

transformConnectQuestions(data) == LinkLoop(data, 1, 1)

\* containerCache[id] of transformConnectContainers: the last tree node of
\* `all` whose nodeId is id (a placeholder's nodeId is null, the key "null",
\* which is also what a null parentId looks up); NullRef when there is none
CacheLookup(data, id) ==
    IF \E k \in 1..Len(data.all) : data.heap[data.all[k]].nodeId = id
    THEN data.all[CHOOSE k \in 1..Len(data.all) :
            /\ data.heap[data.all[k]].nodeId = id
            /\ \A l \in 1..Len(data.all) : data.heap[data.all[l]].nodeId = id => l <= k]
    ELSE NullRef

\* the body of assumptions.result.forEach
HoldAssumption(data, ai, container) ==
    IF container = NullRef THEN data
    ELSE [data EXCEPT !.as[ai].container = container,
                      !.heap[container].assumptions = Append(@, ai)]

RECURSIVE HoldLoop(_, _)
HoldLoop(data, ai) ==
    IF ai > Len(data.as) THEN data
    ELSE HoldLoop(HoldAssumption(data, ai, CacheLookup(data, data.as[ai].parentId)), ai + 1)

transformConnectContainers(data) == HoldLoop(data, 1)

-----------------------------------------------------------------------------
(* drawioExporters: doFormatCsv.  A table is a sequence of rows, a row a   *)
(* sequence of cells.                                                      *)

HeaderCell(name, i) == [k |-> "header", name |-> name, i |-> i]
NullCell == [k |-> "null"]
IdCell(id) == [k |-> "id", id |-> id]
TextCell(v) == [k |-> "text", v |-> v]
\* `${a.prefix}(${a.prefixId}):${q.prefix}(${q.prefixId}):${index + 1}`
SubquestionIdCell(a, q, index) ==
    [k |-> "subquestionId", aPrefix |-> a.prefix, aId |-> a.prefixId,
     qPrefix |-> q.prefix, qId |-> q.prefixId, n |-> index + 1]
\* containers.filter(Boolean).join(' / ')
JoinCell(parts) == [k |-> "join", parts |-> SelectSeq(parts, LAMBDA v : v # <<>>)]

\* a walk that forgets to count its steps
SameDepth(d) == d

\* depth++
PlusOne(d) == IF d < 0 THEN d ELSE d + 1

\* let depth = 0; while (currContainer.parent) { depth++; currContainer = currContainer.parent }
\* A walk of more steps than there are tree nodes is on a cycle and never
\* ends: the result is then negative.
RECURSIVE ParentSteps(_, _, _)
ParentSteps(heap, ref, fuel) ==
    IF heap[ref].parent = NullRef THEN 0
    ELSE IF fuel = 0 THEN 0 - 1
    ELSE PlusOne(ParentSteps(heap, heap[ref].parent, fuel - 1))

Depths(data) ==
    [k \in 1..Len(data.all) |->
        ParentSteps(data.heap, data.all[k], Cardinality(DOMAIN data.heap))]

\* Math.max(...depths) of a non-empty array
MaxOf(depths) ==
    CHOOSE d \in {depths[k] : k \in 1..Len(depths)} : \A k \in 1..Len(depths) : depths[k] <= d

\* the chain collected with push instead of unshift: innermost first
RECURSIVE ChainOfInnermostFirst(_, _, _)
ChainOfInnermostFirst(heap, ref, fuel) ==
    IF ref = NullRef \/ fuel = 0 THEN <<>>
    ELSE (IF heap[ref].nodeId # 0 THEN <<heap[ref].value>> ELSE <<>>)
         \o ChainOfInnermostFirst(heap, heap[ref].parent, fuel - 1)

\* while (currContainer) { if (currContainer.nodeId) containers.unshift(currContainer.value);
\*                         currContainer = currContainer.parent }
RECURSIVE ChainOf(_, _, _)
ChainOf(heap, ref, fuel) ==
    IF ref = NullRef \/ fuel = 0 THEN <<>>
    ELSE ChainOf(heap, heap[ref].parent, fuel - 1)
         \o (IF heap[ref].nodeId # 0 THEN <<heap[ref].value>> ELSE <<>>)

\* while (containers.length < maxContainerDepth) containers.push('')
RECURSIVE PadTo(_, _)
PadTo(chain, n) == IF Len(chain) < n THEN PadTo(Append(chain, <<>>), n) ELSE chain

csvHeaders(maxContainerDepth) ==
    <<HeaderCell("assumptionId", 0), HeaderCell("questionId", 0),
      HeaderCell("subquestionId", 0), HeaderCell("assumption", 0),
      HeaderCell("question", 0), HeaderCell("container", 0)>>
    \o [i \in 1..maxContainerDepth |-> HeaderCell("container_depth", i)]

DepthCells(chain) == [i \in 1..Len(chain) |-> TextCell(chain[i])]

\* createRow()
AssumptionRow(a, chain) ==
    <<IdCell(a.prefixId), NullCell, NullCell, TextCell(a.value), NullCell, JoinCell(chain)>>
    \o DepthCells(chain)

\* createRow(q, index), index counted from 0
QuestionRow(a, chain, q, index) ==
    <<IdCell(a.prefixId), IdCell(q.prefixId), SubquestionIdCell(a, q, index),
      TextCell(a.value), TextCell(q.questions[index + 1]), JoinCell(chain)>>
    \o DepthCells(chain)

\* q.questions.map((_, i) => createRow(q, i))
RowsOfQuestion(a, chain, q) ==
    [n \in 1..Len(q.questions) |-> QuestionRow(a, chain, q, n - 1)]

\* a.questions.flatMap(...), from the l-th linked question on
RECURSIVE RowsOfLinks(_, _, _, _)
RowsOfLinks(data, a, chain, l) ==
    IF l > Len(a.questions) THEN <<>>
    ELSE RowsOfQuestion(a, chain, data.qs[a.questions[l]])
         \o RowsOfLinks(data, a, chain, l + 1)

\* the rows of an assumption without its own question-less row
RowsOfChainNoOwnRow(data, a, chain) == RowsOfLinks(data, a, chain, 1)

\* return [createRow(), ...a.questions.flatMap(...)]
RowsOfChain(data, a, chain) ==
    <<AssumptionRow(a, chain)>> \o RowsOfLinks(data, a, chain, 1)

\* the callback of assumptions.result.flatMap
RowsOfAssumption(data, a, maxContainerDepth) ==
    RowsOfChain(data, a,
        PadTo(ChainOf(data.heap, a.container, Cardinality(DOMAIN data.heap)),
              maxContainerDepth))

RECURSIVE csvData(_, _, _)
csvData(data, ai, maxContainerDepth) ==
    IF ai > Len(data.as) THEN <<>>
    ELSE RowsOfAssumption(data, data.as[ai], maxContainerDepth)
         \o csvData(data, ai + 1, maxContainerDepth)

\* Array(-Infinity) throws a RangeError; an endless parent walk never returns
Formatted(data, depths) ==
    IF \E k \in 1..Len(depths) : depths[k] < 0
    THEN [status |-> "hang", maxContainerDepth |-> 0, table |-> <<>>]
    ELSE IF depths = <<>>
    THEN [status |-> "RangeError", maxContainerDepth |-> 0, table |-> <<>>]
    ELSE [status |-> "ok", maxContainerDepth |-> MaxOf(depths),
          table |-> <<csvHeaders(MaxOf(depths))>> \o csvData(data, 1, MaxOf(depths))]

doFormatCsv(data) == Formatted(data, Depths(data))

-----------------------------------------------------------------------------
(* Idle values of the variables a specification does not use.              *)

CodecIdle ==
    /\ env = "jsdom"
    /\ wrapped = TRUE
    /\ text = <<>>
    /\ payload = Null
    /\ decoded = Null
    /\ cpc = "idle"

CleanIdle ==
    /\ rawValue = <<>>
    /\ extracted = Null
    /\ recleaned = <<>>
    /\ xpc = "idle"

PassIdle ==
    /\ passNodes = <<>>
    /\ passResult = Null
    /\ ppc = "idle"

PipeIdle ==
    /\ doc = [containers |-> <<>>, nodes |-> <<>>, edges |-> <<>>]
    /\ containers = Null
    /\ assumptions = Null
    /\ questions = Null
    /\ csv = Null
    /\ qpc = "idle"

-----------------------------------------------------------------------------
(* Codec specification: encode a text, then decode the payload.            *)

CodecInit ==
    /\ env \in Envs
    /\ wrapped \in BOOLEAN
    /\ text \in SeqsUpTo(TextChars, MaxTextLen)
    /\ payload = Null
    /\ decoded = Null
    /\ cpc = "start"
    /\ CleanIdle
    /\ PassIdle
    /\ PipeIdle

Encode ==
    /\ cpc = "start"
    /\ payload' = encodeDrawio(text, DefaultOptions)
    /\ cpc' = "encoded"
    /\ UNCHANGED <<env, wrapped, text, decoded, cleanVars, passVars, pipeVars>>

Decode ==
    /\ cpc = "encoded"
    /\ payload.ok
    /\ decoded' = decodeDrawio(Data(payload.v, wrapped), DefaultOptions, env)
    /\ cpc' = "decoded"
    /\ UNCHANGED <<env, wrapped, text, payload, cleanVars, passVars, pipeVars>>

CodecNext == Encode \/ Decode

SpecCodec == CodecInit /\ [][CodecNext]_vars

\* C1: with default options, decodeDrawio(encodeDrawio(m)) returns exactly m
\* (and so never null) for every markup text m, the empty text included.
C1_RoundTrip ==
    (cpc = "decoded" /\ ~wrapped) => decoded = Ok(text)

\* the round trip where it does hold: under DOMParser, or through an mxfile
C1_RoundTripWhenParsed ==
    (cpc = "decoded" /\ (wrapped \/ env = "DOMParser")) => decoded = Ok(text)

\* under jsdom a bare payload never decodes
C1_BareUnderJsdomIsNull ==
    (cpc = "decoded" /\ ~wrapped /\ env = "jsdom") => decoded = Null

-----------------------------------------------------------------------------
(* Prefix-stripping specification: extract one node's prefix, then apply   *)
(* the cleanup to the cleaned value once more.                             *)

ValueTokens ==
    {Tok("A"), IdTok(Named(1)), Tok(":"), Tok(" "), Tok(">"), Tok("<font"), Tok("<br>"), Tok("x")}

CleanInit ==
    /\ rawValue \in SeqsUpTo(ValueTokens, MaxValueLen)
    /\ extracted = Null
    /\ recleaned = <<>>
    /\ xpc = "start"
    /\ CodecIdle
    /\ PassIdle
    /\ PipeIdle

Extract ==
    /\ xpc = "start"
    /\ extracted' = extractPrefixFromNode([id |-> 1, value |-> rawValue], "A")
    /\ xpc' = "extracted"
    /\ UNCHANGED <<rawValue, recleaned, codecVars, passVars, pipeVars>>

Reclean ==
    /\ xpc = "extracted"
    /\ extracted.match
    /\ recleaned' = Cleanup(extracted.value, "A")
    /\ xpc' = "recleaned"
    /\ UNCHANGED <<rawValue, extracted, codecVars, passVars, pipeVars>>

CleanNext == Extract \/ Reclean

SpecClean == CleanInit /\ [][CleanNext]_vars

\* C9: prefix stripping is idempotent: for every decoded value that matches
\* the prefix pattern, the cleanup applied to the cleaned value returns the
\* cleaned value unchanged.
C9_CleanupIdempotent ==
    xpc = "recleaned" => recleaned = extracted.value

\* a stretch the tag pattern removes: a font/span opening and a later ">"
HasTagStretch(c) ==
    \E i, j \in 1..Len(c) : i < j /\ c[i].t = "<font" /\ c[j].t = ">"

\* an occurrence of the prefix pattern: the prefix at the start or right
\* after a ">", an optional (id), then a colon
HasPrefixOccurrence(c) ==
    \E i \in 1..Len(c) :
        /\ c[i].t = "A"
        /\ i = 1 \/ c[i - 1].t = ">"
        /\ \/ i + 1 <= Len(c) /\ c[i + 1].t = ":"
           \/ i + 2 <= Len(c) /\ c[i + 1].t = "(id)" /\ c[i + 2].t = ":"

\* C9 (amended): the cleanup removes one prefix occurrence and one round of
\* tags, so applying it to the cleaned value returns that value unchanged
\* exactly when the cleaned value holds no further font/span tag and no
\* further occurrence of the prefix pattern.
C9_IdempotentIffNothingLeft ==
    xpc = "recleaned" =>
        (recleaned = extracted.value
            <=> ~HasTagStretch(extracted.value) /\ ~HasPrefixOccurrence(extracted.value))

\* a matching value, cleaned to something non-empty, that a second cleanup keeps
C9_Witness ==
    /\ xpc = "recleaned"
    /\ extracted.value # <<>>
    /\ extracted.value # htmlDecode(rawValue)
    /\ recleaned = extracted.value

-----------------------------------------------------------------------------
(* Extraction-pass specification: one findPrefixedNodes pass over a        *)
(* document whose nodes match or not, with or without an explicit id.      *)

\* the explicit ids of the pass: a word, and the first auto_<n> tokens
PassIds == {Named(1)} \cup {Auto(n) : n \in 1..(MaxPassNodes - 1)}

PassValues ==
    {<<Tok("x")>>, <<Tok("A"), Tok(":"), Tok("x")>>}
    \cup {<<Tok("A"), IdTok(i), Tok(":"), Tok("x")>> : i \in PassIds}

\* node ids are the nodes' positions; a node may lack its id attribute
PassDoc(n, f) ==
    [i \in 1..n |-> [id |-> IF f[i][1] THEN i ELSE 0, value |-> f[i][2], parent |-> 0]]

PassInit ==
    /\ \E n \in 0..MaxPassNodes :
          \E f \in [1..n -> BOOLEAN \X PassValues] : passNodes = PassDoc(n, f)
    /\ passResult = Null
    /\ ppc = "start"
    /\ CodecIdle
    /\ CleanIdle
    /\ PipeIdle

FindPass ==
    /\ ppc = "start"
    /\ passResult' = findPrefixedNodes(passNodes, "A")
    /\ ppc' = "done"
    /\ UNCHANGED <<passNodes, codecVars, cleanVars, pipeVars>>

PassNext == FindPass

SpecPass == PassInit /\ [][PassNext]_vars

\* the nodes of the pass that findPrefixedNodes looks at and that match
Matching == {i \in 1..Len(passNodes) :
                passNodes[i].id # 0 /\ extractPrefixFromNode(passNodes[i], "A").match}
ExplicitId(i) == extractPrefixFromNode(passNodes[i], "A").prefixId

\* C2: whenever a findPrefixedNodes pass returns, the prefixId values of the
\* entities it returns are pairwise distinct.
C2_PrefixIdsDistinct ==
    (ppc = "done" /\ ~passResult.threw) =>
        \A i, j \in 1..Len(passResult.entities) :
            i # j => passResult.entities[i].prefixId # passResult.entities[j].prefixId

\* a pass that returned explicit ids, auto ids and an explicit auto_<n>
C2_Witness ==
    /\ ppc = "done"
    /\ ~passResult.threw
    /\ Len(passResult.entities) = MaxPassNodes
    /\ \E i, j \in Matching : ExplicitId(i) = NoId /\ ExplicitId(j).auto

\* the k-th lowest auto_<n> that no explicit id of the pass reserves
RECURSIVE KthFreeAuto(_, _, _)
KthFreeAuto(reserved, n, k) ==
    IF Auto(n) \in reserved THEN KthFreeAuto(reserved, n + 1, k)
    ELSE IF k = 1 THEN Auto(n)
    ELSE KthFreeAuto(reserved, n + 1, k - 1)

\* the matching nodes in document order
MatchingSeq ==
    LET RECURSIVE go(_)
        go(i) == IF i > Len(passNodes) THEN <<>>
                 ELSE (IF i \in Matching THEN <<i>> ELSE <<>>) \o go(i + 1)
    IN  go(1)

\* what C3 says a pass without duplicate returns: one entity per matching
\* node, an explicit id kept, the k-th id-less node given the k-th lowest
\* auto_<n> that no explicit id of the pass reserves
ExpectedIds ==
    LET ms == MatchingSeq
        reserved == {ExplicitId(i) : i \in Matching}
    IN  [k \in 1..Len(ms) |->
            IF ExplicitId(ms[k]) # NoId THEN ExplicitId(ms[k])
            ELSE KthFreeAuto(reserved, 1,
                     Cardinality({l \in 1..k : ExplicitId(ms[l]) = NoId}))]

\* two matching nodes declare the same explicit id
DuplicateExplicit ==
    \E i, j \in Matching : i # j /\ ExplicitId(i) # NoId /\ ExplicitId(i) = ExplicitId(j)

\* C3 (first half): the pass fails with the duplicate-ID error if and only
\* if two matching nodes declare the same explicit id.
C3_ThrowsIffDuplicate ==
    ppc = "done" => (passResult.threw <=> DuplicateExplicit)

\* C3: a pass fails with the duplicate-ID error if and only if two matching
\* nodes declare the same explicit id; otherwise it returns one entity per
\* matching node, explicit ids kept, and each id-less node receives the
\* lowest auto_<n> not reserved by any explicit id of the pass, wherever the
\* explicit auto_<n> node stands in document order.
C3_DuplicateErrorAndIds ==
    ppc = "done" =>
        /\ passResult.threw <=> DuplicateExplicit
        /\ ~passResult.threw =>
              /\ Len(passResult.entities) = Len(MatchingSeq)
              /\ \A k \in 1..Len(MatchingSeq) :
                    /\ passResult.entities[k].nodeId = passNodes[MatchingSeq[k]].id
                    /\ passResult.entities[k].prefixId = ExpectedIds[k]

\* what the code does keep of C3: a pass that returns has assigned the ids C3
\* describes, and a duplicate explicit id always makes the pass fail
C3_IdsWhenReturned ==
    ppc = "done" =>
        /\ DuplicateExplicit => passResult.threw
        /\ ~passResult.threw =>
              /\ Len(passResult.entities) = Len(MatchingSeq)
              /\ \A k \in 1..Len(MatchingSeq) :
                    /\ passResult.entities[k].nodeId = passNodes[MatchingSeq[k]].id
                    /\ passResult.entities[k].prefixId = ExpectedIds[k]

-----------------------------------------------------------------------------
(* Pipeline specification: parseCommand on a decoded document: the three   *)
(* parsers, the two transformers, then doFormatCsv.                        *)

\* element ids: containers 1.., value nodes 101.., the diagram layer 99
LayerId == 99
NodeId(i) == 100 + i

\* a text token that names its owner
NameTok(i) == [t |-> "x", id |-> Named(i)]

AValue(i) == <<Tok("A"), Tok(":"), Tok(" "), NameTok(i)>>
\* "Q: x<br>- x <br>-x": two sub-questions
QValue2(i) ==
    <<Tok("Q"), Tok(":"), NameTok(i), Tok("<br>"), Tok("-"), Tok(" "), NameTok(i + 1),
      Tok(" "), Tok("<br>"), Tok("-"), NameTok(i + 2)>>
\* "Q: x<br>x": no sub-question
QValue0(i) == <<Tok("Q"), Tok(":"), NameTok(i), Tok("<br>"), NameTok(i + 1)>>
\* "Q:x>A: x<br>- x": matches both prefix patterns; one sub-question
DualValue(i) ==
    <<Tok("Q"), Tok(":"), NameTok(i), Tok(">"), Tok("A"), Tok(":"), Tok(" "), NameTok(i),
      Tok("<br>"), Tok("-"), Tok(" "), NameTok(i + 1)>>

\* what a parent attribute may hold: nothing, the layer, a container id
ParentChoices == {0, LayerId} \cup (1..MaxContainers)

ContainerElements(n, f) ==
    [i \in 1..n |-> [id |-> i, parent |-> f[i], value |-> <<NameTok(i)>>]]

\* documents that vary the containers and the assumptions' parents
TreeDoc(n, f, m, g) ==
    [containers |-> ContainerElements(n, f),
     nodes |-> [i \in 1..m |-> [id |-> NodeId(i), value |-> AValue(i), parent |-> g[i]]]
               \o <<[id |-> NodeId(m + 1), value |-> QValue2(7), parent |-> LayerId]>>,
     edges |-> <<[source |-> NodeId(m + 1), target |-> NodeId(1)]>>]

\* documents that vary the edges among a question, an assumption and a node
\* that is both
LinkDoc(qv, es) ==
    [containers |-> <<[id |-> 1, parent |-> LayerId, value |-> <<NameTok(1)>>]>>,
     nodes |-> <<[id |-> NodeId(1), value |-> qv, parent |-> LayerId],
                 [id |-> NodeId(2), value |-> AValue(2), parent |-> 1],
                 [id |-> NodeId(3), value |-> DualValue(3), parent |-> 0]>>,
     edges |-> es]

Endpoints == {0, NodeId(1), NodeId(2), NodeId(3)}

PipeInit ==
    /\ \/ \E n \in 0..MaxContainers : \E f \in [1..n -> ParentChoices] :
          \E m \in 0..MaxAssumptions : \E g \in [1..m -> ParentChoices] :
              doc = TreeDoc(n, f, m, g)
       \/ \E qv \in {QValue2(7), QValue0(7)} :
          \E k \in 0..MaxEdges : \E es \in [1..k -> [source : Endpoints, target : Endpoints]] :
              doc = LinkDoc(qv, es)
    /\ containers = Null
    /\ assumptions = Null
    /\ questions = Null
    /\ csv = Null
    /\ qpc = "parseContainers"
    /\ CodecIdle
    /\ CleanIdle
    /\ PassIdle

ParseContainers ==
    /\ qpc = "parseContainers"
    /\ containers' = Ok(parseContainers(doc.containers))
    /\ qpc' = "parseAssumptions"
    /\ UNCHANGED <<doc, assumptions, questions, csv, codecVars, cleanVars, passVars>>

ParseAssumptions ==
    /\ qpc = "parseAssumptions"
    /\ assumptions' = parseAssumptions(doc.nodes)
    /\ qpc' = "parseQuestions"
    /\ UNCHANGED <<doc, containers, questions, csv, codecVars, cleanVars, passVars>>

ParseQuestions ==
    /\ qpc = "parseQuestions"
    /\ questions' = parseQuestions(doc.nodes, doc.edges)
    /\ qpc' = "connectQuestions"
    /\ UNCHANGED <<doc, containers, assumptions, csv, codecVars, cleanVars, passVars>>

\* the data the transformers and the exporter work on
DataOf(cs, as, qs) == [as |-> as.v, qs |-> qs.v, heap |-> cs.v.heap, all |-> cs.v.all]

\* a parser that threw left result: null, on which the transformer throws
ParsersOk == containers.ok /\ assumptions.ok /\ questions.ok

ConnectQuestions ==
    /\ qpc = "connectQuestions"
    /\ IF ParsersOk
       THEN /\ assumptions' = Ok(transformConnectQuestions(DataOf(containers, assumptions, questions)).as)
            /\ questions' = Ok(transformConnectQuestions(DataOf(containers, assumptions, questions)).qs)
            /\ qpc' = "connectContainers"
       ELSE /\ qpc' = "TypeError"
            /\ UNCHANGED <<assumptions, questions>>
    /\ UNCHANGED <<doc, containers, csv, codecVars, cleanVars, passVars>>

ConnectContainers ==
    /\ qpc = "connectContainers"
    /\ assumptions' = Ok(transformConnectContainers(DataOf(containers, assumptions, questions)).as)
    /\ containers' = Ok([containers.v EXCEPT !.heap =
            transformConnectContainers(DataOf(containers, assumptions, questions)).heap])
    /\ qpc' = "doFormatCsv"
    /\ UNCHANGED <<doc, questions, csv, codecVars, cleanVars, passVars>>

FormatCsv ==
    /\ qpc = "doFormatCsv"
    /\ csv' = doFormatCsv(DataOf(containers, assumptions, questions))
    /\ qpc' = "done"
    /\ UNCHANGED <<doc, containers, assumptions, questions, codecVars, cleanVars, passVars>>

PipeNext ==
    \/ ParseContainers
    \/ ParseAssumptions
    \/ ParseQuestions
    \/ ConnectQuestions
    \/ ConnectContainers
    \/ FormatCsv

SpecPipe == PipeInit /\ [][PipeNext]_vars

-----------------------------------------------------------------------------
(* Properties of the pipeline.                                             *)

\* the container elements parseContainers works on, and their ids
DocContainers == WithId(doc.containers)
DocContainerIds == IdsOf(DocContainers)

\* how often x occurs in the sequence s
Count(s, x) == Cardinality({i \in 1..Len(s) : s[i] = x})

\* the places <<owner, index>> of the children lists that hold the tree node ref
Places(heap, ref) ==
    UNION {{<<owner, i>> : i \in {j \in 1..Len(heap[owner].children) :
                                      heap[owner].children[j] = ref}} :
           owner \in DOMAIN heap}

\* how often the tree node ref occurs in the children lists of the forest
Attachments(heap, ref) == Cardinality(Places(heap, ref))

\* the owner the parent attribute of a container element names
DeclaredOwner(c) == IF c.parent \in DocContainerIds THEN c.parent ELSE RootRef

ContainersParsed == containers.ok

(* C4: after parseContainers each container is in exactly one children    *)
(* list of the forest, and its parent reference is the owner of that list: *)
(* the synthetic root when its parent attribute is absent or names no      *)
(* container, otherwise the tree node of the named container.              *)
C4_OneParentEach ==
    ContainersParsed =>
        \A i \in 1..Len(DocContainers) :
            /\ Attachments(containers.v.heap, DocContainers[i].id) = 1
            /\ containers.v.heap[DocContainers[i].id].parent = DeclaredOwner(DocContainers[i])
            /\ Count(containers.v.heap[DeclaredOwner(DocContainers[i])].children,
                     DocContainers[i].id) = 1

\* what holds of C4: a container whose parent attribute names a container
\* of the set is attached once, to that container; any other container is
\* attached twice, to the root and to the placeholder of its parent
\* attribute, and its parent reference is the placeholder
C4_AttachedAsCoded ==
    ContainersParsed =>
        \A i \in 1..Len(DocContainers) :
            LET c == DocContainers[i]
                heap == containers.v.heap
            IN  /\ heap[c.id].parent = c.parent
                /\ Count(heap[c.parent].children, c.id) = 1
                /\ IF c.parent \in DocContainerIds
                   THEN Attachments(heap, c.id) = 1
                   ELSE /\ Attachments(heap, c.id) = 2
                        /\ Count(heap[RootRef].children, c.id) = 1
                        /\ heap[c.parent].nodeId = 0

Done == qpc = "done"

\* the widths of the rows of a table
RowWidths(table) == {Len(table[r]) : r \in 1..Len(table)}

(* C5: for every extracted and linked graph, with any number of           *)
(* containers including none, doFormatCsv returns a table whose first row  *)
(* is the header assumptionId .. container, container_depth1 ..            *)
(* container_depth<maxContainerDepth>, and every data row is as wide as    *)
(* the header.                                                             *)
C5_TableOfHeaderWidth ==
    Done =>
        /\ csv.status = "ok"
        /\ csv.table[1] = csvHeaders(csv.maxContainerDepth)
        /\ RowWidths(csv.table) = {6 + csv.maxContainerDepth}

\* what holds of C5: the table has that shape whenever doFormatCsv returns,
\* and it returns exactly when there is a tree node and no parent cycle
C5_ShapeWhenReturned ==
    Done =>
        /\ csv.status = "ok" =>
              /\ csv.table[1] = csvHeaders(csv.maxContainerDepth)
              /\ RowWidths(csv.table) = {6 + csv.maxContainerDepth}
        /\ DocContainers = <<>> => csv.status = "RangeError"

\* the keys <<assumption, link, sub-question>> of the data rows in the order
\* claimed: per assumption its own row <<ai, 0, 0>>, then one row per entry
\* l of its questions list and sub-question n of that question
KeysOfLink(qs, ai, l, qi) == [n \in 1..Len(qs[qi].questions) |-> <<ai, l, n>>]

RECURSIVE KeysOfLinks(_, _, _, _)
KeysOfLinks(as, qs, ai, l) ==
    IF l > Len(as[ai].questions) THEN <<>>
    ELSE KeysOfLink(qs, ai, l, as[ai].questions[l]) \o KeysOfLinks(as, qs, ai, l + 1)

RECURSIVE ExpectedKeys(_, _, _)
ExpectedKeys(as, qs, ai) ==
    IF ai > Len(as) THEN <<>>
    ELSE <<<<ai, 0, 0>>>> \o KeysOfLinks(as, qs, ai, 1) \o ExpectedKeys(as, qs, ai + 1)

\* the sub-question count of the entries l.. of an assumption's questions list
RECURSIVE LinkedSubCount(_, _, _)
LinkedSubCount(a, qs, l) ==
    IF l > Len(a.questions) THEN 0
    ELSE Len(qs[a.questions[l]].questions) + LinkedSubCount(a, qs, l + 1)

\* sum over the assumptions ai.. of (1 + the linked sub-question count)
RECURSIVE RowTotal(_, _, _)
RowTotal(as, qs, ai) ==
    IF ai > Len(as) THEN 0
    ELSE 1 + LinkedSubCount(as[ai], qs, 1) + RowTotal(as, qs, ai + 1)

OwnRowOf(row, a) ==
    /\ row[1] = IdCell(a.prefixId)
    /\ row[2] = NullCell
    /\ row[3] = NullCell
    /\ row[4] = TextCell(a.value)
    /\ row[5] = NullCell

SubRowOf(row, a, q, n) ==
    /\ row[1] = IdCell(a.prefixId)
    /\ row[2] = IdCell(q.prefixId)
    /\ row[3] = [k |-> "subquestionId", aPrefix |-> a.prefix, aId |-> a.prefixId,
                 qPrefix |-> q.prefix, qId |-> q.prefixId, n |-> n]
    /\ row[4] = TextCell(a.value)
    /\ row[5] = TextCell(q.questions[n])

RowOfKey(row, as, qs, key) ==
    IF key[2] = 0 THEN OwnRowOf(row, as[key[1]])
    ELSE SubRowOf(row, as[key[1]], qs[as[key[1]].questions[key[2]]], key[3])

RowsFollow(table, as, qs, keys) ==
    /\ Len(table) = 1 + RowTotal(as, qs, 1)
    /\ Len(table) = 1 + Len(keys)
    /\ \A k \in 1..Len(keys) : RowOfKey(table[k + 1], as, qs, keys[k])

Returned == Done /\ csv.status = "ok"

(* C6: the number of data rows doFormatCsv produces is the sum over the   *)
(* assumptions of (1 + the sum over the entries of the assumption's        *)
(* questions list of that question's sub-question count); the rows of an   *)
(* assumption are contiguous: its question-less row, then its (question,   *)
(* sub-question) rows in link order and sub-question order, each with the  *)
(* subquestionId <aPrefix>(<aId>):<qPrefix>(<qId>):<1-based index>.        *)
C6_RowsPerAssumption ==
    Returned =>
        RowsFollow(csv.table, assumptions.v, questions.v,
                   ExpectedKeys(assumptions.v, questions.v, 1))

\* two assumptions, one of them linked to two different questions that
\* have sub-questions
C6_Witness ==
    /\ Returned
    /\ Len(assumptions.v) >= 2
    /\ \E ai \in 1..Len(assumptions.v) :
           /\ Len(assumptions.v[ai].questions) >= 2
           /\ assumptions.v[ai].questions[1] # assumptions.v[ai].questions[2]
           /\ LinkedSubCount(assumptions.v[ai], questions.v, 1) >= 3

\* the container element with the given id
DocContainer(id) ==
    DocContainers[CHOOSE i \in 1..Len(DocContainers) : DocContainers[i].id = id]

\* the number of container ancestors the parent attributes give the
\* container id (fuel bounds the walk when the attributes form a cycle)
RECURSIVE Ancestors(_, _)
Ancestors(id, fuel) ==
    IF DocContainer(id).parent \notin DocContainerIds \/ fuel = 0 THEN 0
    ELSE 1 + Ancestors(DocContainer(id).parent, fuel - 1)

\* the values of the containers from the outermost down to the container
\* the parent attribute p names; empty when p names no container
RECURSIVE DocChain(_, _)
DocChain(p, fuel) ==
    IF p \notin DocContainerIds \/ fuel = 0 THEN <<>>
    ELSE Append(DocChain(DocContainer(p).parent, fuel - 1), DocContainer(p).value)

\* the immediate container plus all its container ancestors
ChainCount(p) ==
    IF p \in DocContainerIds THEN 1 + Ancestors(p, Len(DocContainers)) ELSE 0

DepthCellsOf(row, chain, maxContainerDepth) ==
    /\ Len(row) = 6 + maxContainerDepth
    /\ Len(chain) <= maxContainerDepth
    /\ \A i \in 1..maxContainerDepth :
           row[6 + i] = TextCell(IF i <= Len(chain) THEN chain[i] ELSE <<>>)

ChainsFollow(table, as, keys, maxContainerDepth) ==
    /\ Len(table) = 1 + Len(keys)
    /\ \A k \in 1..Len(keys) :
           /\ DepthCellsOf(table[k + 1],
                           DocChain(as[keys[k][1]].node.parent, Len(DocContainers)),
                           maxContainerDepth)
           /\ Len(DocChain(as[keys[k][1]].node.parent, Len(DocContainers)))
                  = ChainCount(as[keys[k][1]].node.parent)

(* C7: in every data row the container_depth cells are the values of the  *)
(* containers on the assumption's chain, outermost first and the           *)
(* assumption's immediate container last, followed only by empty-string    *)
(* padding up to maxContainerDepth; the number of chain entries is the     *)
(* number of containers on the chain (the immediate container plus its     *)
(* container ancestors), 0 for an assumption that no container holds.      *)
C7_DepthCellsAreChain ==
    Returned =>
        ChainsFollow(csv.table, assumptions.v,
                     ExpectedKeys(assumptions.v, questions.v, 1), csv.maxContainerDepth)

\* an assumption in a nested container, and one that no container holds,
\* whose depth cells are all padding
C7_Witness ==
    /\ Returned
    /\ \E a1, a2 \in 1..Len(assumptions.v) :
           /\ ChainCount(assumptions.v[a1].node.parent) = 2
           /\ ChainCount(assumptions.v[a2].node.parent) = 0

Linked == qpc \in {"connectContainers", "doFormatCsv", "done"}

\* the edge elements that join the nodes x and y, in either direction
EdgesBetween(x, y) ==
    {e \in 1..Len(doc.edges) :
        \/ doc.edges[e].source = x /\ doc.edges[e].target = y
        \/ doc.edges[e].source = y /\ doc.edges[e].target = x}

\* the edge elements parseQuestions credits to the question node x with
\* target y: x is the source, or x is the target and the source is not a
\* question node
EdgesCredited(qs, x, y) ==
    {e \in 1..Len(doc.edges) :
        \/ doc.edges[e].source = x /\ doc.edges[e].target = y
        \/ /\ doc.edges[e].source = y /\ doc.edges[e].target = x
           /\ ByNodeId(qs, y) = 0}

LinksCount(as, qs, qi, ai, n) ==
    /\ Count(as[ai].questions, qi) = n
    /\ Count(qs[qi].assumptions, ai) = n

(* C8: after parseQuestions and transformConnectQuestions, for every      *)
(* question q and assumption a, q occurs in a.questions as often as a      *)
(* occurs in q.assumptions, and both as often as there are edge elements   *)
(* whose endpoints are q's node and a's node in either direction.          *)
C8_LinksAreEdges ==
    Linked =>
        \A qi \in 1..Len(questions.v) : \A ai \in 1..Len(assumptions.v) :
            LinksCount(assumptions.v, questions.v, qi, ai,
                Cardinality(EdgesBetween(questions.v[qi].nodeId, assumptions.v[ai].nodeId)))

\* what holds of C8: the two lists agree, and they count the edges that
\* parseQuestions credits to q
C8_LinksAreCreditedEdges ==
    Linked =>
        \A qi \in 1..Len(questions.v) : \A ai \in 1..Len(assumptions.v) :
            LinksCount(assumptions.v, questions.v, qi, ai,
                Cardinality(EdgesCredited(questions.v, questions.v[qi].nodeId,
                                          assumptions.v[ai].nodeId)))

\* the ancestor counts of the container elements
AncestorCounts == {Ancestors(DocContainers[i].id, Len(DocContainers)) : i \in 1..Len(DocContainers)}

\* the greatest number of container ancestors above any container
GreatestAncestors == CHOOSE d \in AncestorCounts : \A e \in AncestorCounts : e <= d

(* C10 as stated: the maxContainerDepth doFormatCsv computes is the       *)
(* greatest number of container ancestors above any container node: 0     *)
(* when all containers are top-level, k for a container nested k levels.   *)
C10_DepthIsAncestors ==
    Returned => csv.maxContainerDepth = GreatestAncestors

(* C10 amended: the maxContainerDepth doFormatCsv computes is one more    *)
(* than the greatest number of container ancestors above any container     *)
(* node, the parent reference of a top-level container being the           *)
(* placeholder of its parent attribute: 1 when all containers are          *)
(* top-level, k + 1 for a container nested k levels; with no container     *)
(* there is no maximum and doFormatCsv throws.                             *)
C10_DepthIsChainLength ==
    Done =>
        /\ csv.status = "ok" => csv.maxContainerDepth = 1 + GreatestAncestors
        /\ DocContainers = <<>> <=> csv.status = "RangeError"

\* a forest of two containers, one nested in the other
C10_Witness ==
    /\ Returned
    /\ GreatestAncestors = 1
    /\ csv.maxContainerDepth = 2
    /\ Len(DocContainers) = 2

Held == qpc \in {"doFormatCsv", "done"}

\* the tree nodes whose assumptions list holds the assumption ai
Holders(heap, ai) == {ref \in DOMAIN heap : Count(heap[ref].assumptions, ai) > 0}

HeldAsDeclared(heap, a, ai) ==
    IF a.parentId \in DocContainerIds
    THEN /\ a.container = a.parentId
         /\ heap[a.container].nodeId = a.parentId
         /\ Holders(heap, ai) = {a.parentId}
    ELSE /\ a.container = NullRef
         /\ Holders(heap, ai) = {}

(* C11: after transformConnectContainers an assumption has a container    *)
(* reference if and only if its parentId is the id of a container element  *)
(* of the document, and the reference is then that container's tree node;  *)
(* an assumption whose parent attribute is absent or names a non-container *)
(* keeps no container and is in no tree node's assumptions list.           *)
C11_HeldIffParentIsContainer ==
    Held =>
        \A ai \in 1..Len(assumptions.v) :
            HeldAsDeclared(containers.v.heap, assumptions.v[ai], ai)

\* the placeholders: the tree nodes of containerCache that no container
\* element filled
Placeholders(heap) == {ref \in DOMAIN heap \ {RootRef} : heap[ref].nodeId = 0}

\* what holds of C11: an assumption whose parent attribute is absent is
\* held by a placeholder whenever the forest has one, because the
\* placeholders and the absent parentId share the key "null"
C11_HeldAsCoded ==
    Held =>
        \A ai \in 1..Len(assumptions.v) :
            LET a == assumptions.v[ai]
                heap == containers.v.heap
            IN  IF a.parentId = 0 /\ Placeholders(heap) # {}
                THEN /\ a.container \in Placeholders(heap)
                     /\ Holders(heap, ai) = {a.container}
                ELSE HeldAsDeclared(heap, a, ai)

\* no walk along the parent references from the tree node ref is endless
Acyclic(heap) ==
    \A ref \in DOMAIN heap : ParentSteps(heap, ref, Cardinality(DOMAIN heap)) >= 0

(* C12: for every document, also one whose container parent attributes    *)
(* form a cycle or name the container itself, the forest parseContainers   *)
(* builds is acyclic: the parent references lead from every tree node to   *)
(* a node without parent in finitely many steps, and the parent walks of   *)
(* doFormatCsv terminate.                                                  *)
C12_ForestAcyclic ==
    /\ ContainersParsed => Acyclic(containers.v.heap)
    /\ Done => csv.status # "hang"

\* the parent attributes lead from the container id back to it
OnDocCycle(id) ==
    Ancestors(id, 2 * Len(DocContainers)) > Len(DocContainers)

\* what holds of C12: the forest has a cycle, and doFormatCsv does not
\* return, exactly when the parent attributes of the containers have one
C12_CyclicAsDeclared ==
    /\ ContainersParsed =>
          (Acyclic(containers.v.heap)
              <=> \A i \in 1..Len(DocContainers) : ~OnDocCycle(DocContainers[i].id))
    /\ Done => (csv.status = "hang" <=> ~Acyclic(containers.v.heap))

====
